---- MODULE Spec2Model ----
(***************************************************************************)
(* Controller side of the clippy JSON-over-pipes protocol.                 *)
(*                                                                         *)
(*   Spec        classes(): executable check, spawn, READY handshake and   *)
(*               the class-catalog exchange (monolith backend)             *)
(*   SpecSend    send_cmd exchanges on a backend that finished its         *)
(*               handshake                                                 *)
(*   SpecStream  _stream_exec: one exchange with a one-shot executable     *)
(*   SpecMethod  calls of a bound method m on one instance of a class      *)
(*                                                                         *)
(* A backend is an arbitrary program: at any moment it may write a line to *)
(* its output or error stream, or exit.  The controller's steps are the    *)
(* statements of the Python source between two system calls.               *)
(***************************************************************************)
EXTENDS Integers, Sequences, FiniteSets, TLC

\* ------------------------------------------------------------------ bounds
\* lines a backend writes during discovery
MaxDiscWrites == 3
\* lines a backend writes during the exchanges of SpecSend
MaxWrites == 4
\* send_cmd calls on one process in SpecSend
MaxExchanges == 2
\* lines a backend writes during one _stream_exec call
MaxStreamWrites == 3

\* ------------------------------------------------------------- JSON values
\* A decoded JSON object is a function from keys to values ({} is EmptyDict).
EmptyDict == [k \in {} |-> ""]

Get(dict, k, default) == IF k \in DOMAIN dict THEN dict[k] ELSE default

\* dict.update: the right operand wins on equal keys
Update(dict, other) == other @@ dict

\* monolith/constants.py
CLASSES == <<"_getclasses", "_classes">>
STATUS_KEY == "_status"
STATUS_READY == (STATUS_KEY :> "ready")
STATUS_START == (STATUS_KEY :> "start")
STATUS_END == (STATUS_KEY :> "end")
STATUS_UPDATE == (STATUS_KEY :> "update")
RESULTS_KEY == "results"

\* ------------------------------------------------------------ wire lines
\* The text of the lines a backend may put on its pipes (without the
\* terminating newline).  readline() returns EOF, the empty text, at end of
\* stream.
EOF == ""
L_READY == "{\"_status\": \"ready\"}"
L_START == "{\"_status\": \"start\"}"
L_END == "{\"_status\": \"end\"}"
L_UPDATE_MSG == "{\"_status\": \"update\", \"message\": \"working\"}"
L_RES_A == "{\"name\": \"A\"}"
L_RES_B == "{\"name\": \"B\"}"
L_NUMBER == "7"
L_GARBAGE == "Segmentation fault"
L_ERR == "boom"

\* output lines of a backend driven by _stream_exec
X_EMPTY == "{}"
X_RESULT == "{\"return\": \"42\"}"
X_OUTPUT == "{\"output\": \"hello\"}"
X_PSTART == "{\"progress_start\": null}"
X_PINC == "{\"progress_inc\": 1}"
X_PEND == "{\"progress_end\": null}"
StreamLines == {X_EMPTY, X_RESULT, X_OUTPUT, X_PSTART, X_PINC, X_PEND, L_GARBAGE}
StreamErrLines == {"boom", "bang"}

\* reserved keys of a response (clippy/constants.py, fs/constants.py)
OUTPUT_KEY == "output"
PROGRESS_START_KEY == "progress_start"
PROGRESS_INC_KEY == "progress_inc"
PROGRESS_SET_KEY == "progress_set"
PROGRESS_END_KEY == "progress_end"

\* what a backend writes to its output stream while classes() runs, and
\* during later exchanges
DiscLines == {L_READY, L_START, L_END, L_UPDATE_MSG, L_RES_A, L_NUMBER, L_GARBAGE}
SendLines == {L_START, L_END, L_UPDATE_MSG, L_RES_A, L_RES_B, L_GARBAGE}
ErrLines == {L_ERR}

\* json.loads on the line texts above: ok = FALSE is json.JSONDecodeError,
\* isdict = FALSE a JSON document that is no object.
Decoded(obj) == [ok |-> TRUE, isdict |-> TRUE, val |-> obj]
JSONDecodeError == [ok |-> FALSE, isdict |-> FALSE, val |-> EmptyDict]
json_loads(line) ==
    CASE line = L_READY -> Decoded(STATUS_READY)
      [] line = L_START -> Decoded(STATUS_START)
      [] line = L_END -> Decoded(STATUS_END)
      [] line = L_UPDATE_MSG -> Decoded(STATUS_UPDATE @@ ("message" :> "working"))
      [] line = L_RES_A -> Decoded("name" :> "A")
      [] line = L_RES_B -> Decoded("name" :> "B")
      [] line = X_EMPTY -> Decoded(EmptyDict)
      [] line = X_RESULT -> Decoded("return" :> "42")
      [] line = X_OUTPUT -> Decoded(OUTPUT_KEY :> "hello")
      [] line = X_PSTART -> Decoded(PROGRESS_START_KEY :> "null")
      [] line = X_PINC -> Decoded(PROGRESS_INC_KEY :> "1")
      [] line = X_PEND -> Decoded(PROGRESS_END_KEY :> "null")
      [] line = L_NUMBER -> [ok |-> TRUE, isdict |-> FALSE, val |-> ("number" :> "7")]
      [] OTHER -> JSONDecodeError

\* json.dumps of a request: one JSON document per line on the input stream
json_dumps(obj) == [doc |-> obj]

\* ------------------------------------------------------------------ state
VARIABLES
    file,       \* what os.path.isfile / os.stat report for cfg["monolith_exe"]
    pc,         \* position of the controller
    alive,      \* the backend process runs (its ends of the pipes are open)
    spawned,    \* number of processes created by subprocess.Popen
    stdin,      \* lines written to the backend's input stream
    stdout,     \* lines on the output pipe, not yet read
    stderr,     \* lines on the error pipe, not yet read
    readable,   \* result of the last select()
    results,    \* send_cmd: the list `results`
    request,    \* send_cmd: cmd and args of the call in progress
    ret,        \* send_cmd: the returned (payload, error) of the last call
    raised,     \* exception that ended classes() or send_cmd, or NoException
    classesRet, \* classes(): number of classes returned, -1 before it returns
    writes,     \* lines the backend has written so far
    exchanges,  \* send_cmd calls started so far
    hsLine,     \* history: the status line classes() read in the handshake
    delivered,  \* history: output lines read by the send_cmd call in progress
    errSilent,  \* history: the backend has neither written to nor closed its error pipe
    \* _stream_exec (fs backend)
    closed,     \* pipes whose write end the backend has closed
    exitcode,   \* exit status of the process once it has exited
    mode,       \* the caller: "run" (_run), "validate" (_validate), "help" (_help)
    has_tqdm,   \* _has_tqdm: the tqdm import succeeded
    streams,    \* the list `streams`
    d,          \* the last decoded output line
    stderr_lines, \* the list `stderr_lines`
    progress,   \* the progress sink
    seRet,      \* the returned (payload, stderr, returncode)
    callRet,    \* what the caller of _stream_exec returns in its turn
    raisedArg,  \* the argument of the raised exception
    printed,    \* texts printed so far
    outRead,    \* history: output lines read by _stream_exec
    \* a bound method m of one instance (_define_method)
    constructed, \* the instance exists
    self_state, \* the instance's state attribute
    self_sel,   \* the instance's selector trees: node path -> value
    m_argdict,  \* argdict of the last call, as passed to _run
    m_kwargs,   \* the caller's keyword arguments after the last call
    m_outj,     \* outj of the last call
    m_result,   \* how the last call ended
    m_output,   \* text the last call printed
    prev_state, \* history: self_state when the last call began
    prev_sel,   \* history: self_sel when the last call began
    resp_state, \* history: state of the latest response that carried one
    sent_expect, \* history: resp_state when the last call began
    hist        \* history of the exchanges on the process (see NoHist)

methVars == <<constructed, self_state, self_sel, m_argdict, m_kwargs, m_outj,
              m_result, m_output, prev_state, prev_sel, resp_state, sent_expect>>

streamVars == <<closed, exitcode, mode, has_tqdm, streams, d, stderr_lines,
                progress, seRet, callRet, raisedArg, printed, outRead>>

vars == <<file, pc, alive, spawned, stdin, stdout, stderr, readable, results,
          request, ret, raised, classesRet, writes, exchanges, hsLine,
          delivered, errSilent, streamVars, methVars, hist>>

procVars == <<alive, stdout, stderr, writes, errSilent>>

\* the variables of classes() and send_cmd that _stream_exec does not touch
monoVars == <<file, results, request, ret, classesRet, exchanges, hsLine,
              delivered, hist>>

NoException == "none"
NoLine == "<no line read>"
NoRet == [set |-> FALSE, payload |-> EmptyDict, error |-> ""]
Ret(payload, error) == [set |-> TRUE, payload |-> payload, error |-> error]
NoRequest == [cmd |-> <<"", "">>, args |-> EmptyDict]

\* What is remembered about the exchanges on the process:
\*   prev       how the previous send_cmd on the process ended
\*   pending    whether output lines were already in the pipe when the
\*              request of the current exchange was written
\*   errDuring  unread error lines written since that request was written
NoHist == [prev |-> "none", pending |-> FALSE, errDuring |-> 0]
InExchange == pc \in {"sc_select", "sc_branch", "sc_loop", "sc_errcheck"}

\* ------------------------------------------------------------ the backend
\* The process writes a line to its output stream.
BackendWriteOut(lines, limit) ==
    /\ alive /\ writes < limit
    /\ \E line \in lines : stdout' = Append(stdout, line)
    /\ writes' = writes + 1
    /\ UNCHANGED <<file, pc, alive, spawned, stdin, stderr, readable, results,
                   request, ret, raised, classesRet, exchanges, hsLine,
                   delivered, errSilent>>
    /\ UNCHANGED <<streamVars, methVars, hist>>

\* The process writes a line to its error stream.
BackendWriteErr(limit) ==
    /\ alive /\ writes < limit
    /\ \E line \in ErrLines : stderr' = Append(stderr, line)
    /\ writes' = writes + 1
    /\ errSilent' = FALSE
    /\ UNCHANGED <<file, pc, alive, spawned, stdin, stdout, readable, results,
                   request, ret, raised, classesRet, exchanges, hsLine,
                   delivered>>
    /\ hist' = IF InExchange THEN [hist EXCEPT !.errDuring = @ + 1] ELSE hist
    /\ UNCHANGED <<streamVars, methVars>>

\* The process exits: both pipes reach end of stream once drained.
BackendExit ==
    /\ alive
    /\ alive' = FALSE
    /\ errSilent' = FALSE
    /\ UNCHANGED <<file, pc, spawned, stdin, stdout, stderr, readable, results,
                   request, ret, raised, classesRet, writes, exchanges, hsLine,
                   delivered>>
    /\ UNCHANGED <<streamVars, methVars, hist>>

\* select.select: a pipe is readable when it holds a line or is at end of
\* stream.
Ready(rlist) ==
    {s \in rlist : IF s = "stdout" THEN stdout # <<>> \/ ~alive
                               ELSE stderr # <<>> \/ ~alive}

\* readline() on a readable pipe
Readline(q) == IF q = <<>> THEN EOF ELSE Head(q)
Rest(q) == IF q = <<>> THEN q ELSE Tail(q)


\* ------------------------------------------------- _is_user_executable
Uid == "alice"
Gid == "staff"
Files == [isfile : BOOLEAN, st_uid : {"alice", "bob"}, st_gid : {"staff", "wheel"},
          S_IXUSR : BOOLEAN, S_IXGRP : BOOLEAN, S_IXOTH : BOOLEAN]

_is_user_executable_NoOwnerMatch(f) ==
    f.isfile /\ (f.S_IXUSR \/ (f.st_gid = Gid /\ f.S_IXGRP) \/ f.S_IXOTH)

_is_user_executable(f) ==
    IF ~f.isfile THEN FALSE
    ELSE IF f.st_uid = Uid /\ f.S_IXUSR THEN TRUE
    ELSE IF f.st_gid = Gid /\ f.S_IXGRP THEN TRUE
    ELSE IF f.S_IXOTH THEN TRUE
    ELSE FALSE

\* ----------------------------------------------------------- send_cmd
\* return (payload, error): control goes back to the caller and the locals
\* of the call are gone
Return(payload, error) ==
    /\ ret' = Ret(payload, error)
    /\ pc' = "returned"
    /\ readable' = {}
    /\ results' = <<>>

\* an exception leaves send_cmd
Raise(exception) ==
    /\ raised' = exception
    /\ pc' = "raised"
    /\ readable' = {}
    /\ results' = <<>>

\* line 123: data.get(STATUS_KEY) == "update"
IsUpdate_AppendsUpdates(data) == FALSE
IsUpdate(data) == Get(data, STATUS_KEY, "None") = "update"

\* send_d = {"cmd": cmd[0]}; send_d.update(args)
send_d(cmd, args) == Update(("cmd" :> cmd[1]), args)

\* lines 78-83: the request is written and flushed
ScWrite ==
    /\ pc = "sc_write" /\ alive
    /\ stdin' = Append(stdin, json_dumps(send_d(request.cmd, request.args)))
    /\ pc' = "sc_select"
    /\ UNCHANGED <<file, spawned, readable, results, request, ret, raised,
                   classesRet, exchanges, hsLine, delivered>>
    /\ UNCHANGED procVars
    /\ hist' = [hist EXCEPT !.pending = (stdout # <<>>)]
    /\ UNCHANGED <<streamVars, methVars>>

\* lines 82-83 on a pipe whose reader is gone: flush() raises
ScWriteBroken ==
    /\ pc = "sc_write" /\ ~alive
    /\ Raise("BrokenPipeError")
    /\ UNCHANGED <<file, spawned, stdin, request, ret, classesRet, exchanges,
                   hsLine, delivered>>
    /\ UNCHANGED procVars
    /\ UNCHANGED <<streamVars, methVars, hist>>

\* lines 86-88: select on both pipes; an empty result is the timeout
ScSelect ==
    /\ pc = "sc_select"
    /\ readable' = Ready({"stdout", "stderr"})
    /\ pc' = "sc_branch"
    /\ UNCHANGED <<file, spawned, stdin, results, request, ret, raised,
                   classesRet, exchanges, hsLine, delivered>>
    /\ UNCHANGED procVars
    /\ UNCHANGED <<streamVars, methVars, hist>>

\* lines 89-92: the error pipe is readable
ScStderr ==
    /\ pc = "sc_branch" /\ "stderr" \in readable
    /\ Return(EmptyDict, Readline(stderr))
    /\ stderr' = Rest(stderr)
    /\ UNCHANGED <<file, spawned, stdin, request, raised, classesRet, exchanges,
                   hsLine, delivered>>
    /\ UNCHANGED <<alive, stdout, writes, errSilent>>
    /\ hist' = IF stderr # <<>> /\ Len(stderr) = hist.errDuring
             THEN [hist EXCEPT !.errDuring = @ - 1] ELSE hist
    /\ UNCHANGED <<streamVars, methVars>>

\* lines 94-95: nothing was readable within SELECT_TIMEOUT
ScTimeout ==
    /\ pc = "sc_branch" /\ "stderr" \notin readable /\ "stdout" \notin readable
    /\ Return(EmptyDict, "Timeout waiting for response")
    /\ UNCHANGED <<file, spawned, stdin, request, raised, classesRet, exchanges,
                   hsLine, delivered>>
    /\ UNCHANGED procVars
    /\ UNCHANGED <<streamVars, methVars, hist>>

\* lines 97-104: the first output line must decode to STATUS_START
ScReadStart ==
    /\ pc = "sc_branch" /\ "stderr" \notin readable /\ "stdout" \in readable
    /\ LET start_line == Readline(stdout)
           start_status == json_loads(start_line)
       IN  /\ stdout' = Rest(stdout)
           /\ delivered' = IF start_line = EOF THEN delivered
                           ELSE Append(delivered, start_line)
           /\ IF ~start_status.ok
              THEN Return(EmptyDict, "Invalid JSON for STATUS_START: " \o start_line)
              ELSE IF ~(start_status.isdict /\ start_status.val = STATUS_START)
              THEN Return(EmptyDict, "Expected STATUS_START, got: " \o start_line)
              ELSE /\ results' = <<>>
                   /\ readable' = {}
                   /\ pc' = "sc_loop"
                   /\ UNCHANGED ret
    /\ UNCHANGED <<file, spawned, stdin, request, raised, classesRet, exchanges,
                   hsLine>>
    /\ UNCHANGED <<alive, stderr, writes, errSilent>>
    /\ UNCHANGED <<streamVars, methVars, hist>>

\* line 110: `if not line`, the end of the output stream
NotLine_Never(line) == FALSE
NotLine(line) == line = EOF

\* lines 108-129: one turn of the loop; readline blocks until a line or the
\* end of the stream is there
ScReadLine ==
    /\ pc = "sc_loop" /\ (stdout # <<>> \/ ~alive)
    /\ LET line == Readline(stdout)
           data == json_loads(line)
       IN  /\ stdout' = Rest(stdout)
           /\ delivered' = IF line = EOF THEN delivered ELSE Append(delivered, line)
           /\ IF NotLine(line)
              THEN /\ Return(EmptyDict, "Unexpected EOF while reading response")
                   /\ UNCHANGED raised
              ELSE IF ~data.ok
              THEN /\ Return(EmptyDict, "Invalid JSON in response: " \o line)
                   /\ UNCHANGED raised
              ELSE IF data.isdict /\ data.val = STATUS_END
              THEN /\ pc' = "sc_errcheck"
                   /\ UNCHANGED <<readable, results, ret, raised>>
              ELSE IF ~data.isdict
              THEN \* data.get on a document that is no object
                   /\ Raise("AttributeError")
                   /\ UNCHANGED ret
              ELSE IF IsUpdate(data.val)
              THEN UNCHANGED <<pc, readable, results, ret, raised>>
              ELSE /\ results' = Append(results, data.val)
                   /\ UNCHANGED <<pc, readable, ret, raised>>
    /\ UNCHANGED <<file, spawned, stdin, request, classesRet, exchanges, hsLine>>
    /\ UNCHANGED <<alive, stderr, writes, errSilent>>
    /\ UNCHANGED <<streamVars, methVars, hist>>

\* lines 131-141: package the results unless the error pipe is readable now
ScErrCheck ==
    /\ pc = "sc_errcheck"
    /\ LET recv_d == (RESULTS_KEY :> results)
       IN  IF "stderr" \in Ready({"stderr"})
           THEN /\ Return(EmptyDict, Readline(stderr))
                /\ stderr' = Rest(stderr)
           ELSE /\ Return(recv_d, "")
                /\ UNCHANGED stderr
    /\ UNCHANGED <<file, spawned, stdin, request, raised, classesRet, exchanges,
                   hsLine, delivered>>
    /\ UNCHANGED <<alive, stdout, writes, errSilent>>
    /\ hist' = IF stderr # <<>> /\ Len(stderr) = hist.errDuring
             THEN [hist EXCEPT !.errDuring = @ - 1] ELSE hist
    /\ UNCHANGED <<streamVars, methVars>>

send_cmd ==
    \/ ScWrite \/ ScWriteBroken \/ ScSelect \/ ScStderr \/ ScTimeout
    \/ ScReadStart \/ ScReadLine \/ ScErrCheck

\* ------------------------------------------------------------ classes()
\* line 183: status != STATUS_READY, after json.loads succeeded
IsReady_AnyJson(status) == status.ok
IsReady(status) == status.ok /\ status.isdict /\ status.val = STATUS_READY

\* lines 150-152: the configured path is rejected before any process exists
ClassesReject ==
    /\ pc = "not_started" /\ ~_is_user_executable(file)
    /\ raised' = "ClippyConfigurationError"
    /\ pc' = "failed"
    /\ UNCHANGED <<file, spawned, stdin, readable, results, request, ret,
                   classesRet, exchanges, hsLine, delivered>>
    /\ UNCHANGED procVars
    /\ UNCHANGED <<streamVars, methVars, hist>>

\* lines 154-162: subprocess.Popen
ClassesSpawn ==
    /\ pc = "not_started" /\ _is_user_executable(file)
    /\ spawned' = spawned + 1
    /\ alive' = TRUE
    /\ pc' = "hs_select"
    /\ UNCHANGED <<file, stdin, stdout, stderr, readable, results, request, ret,
                   raised, classesRet, writes, exchanges, hsLine, delivered,
                   errSilent>>
    /\ UNCHANGED <<streamVars, methVars, hist>>

\* lines 167-169: wait for the first line, at most READY_TIMEOUT
HsSelect ==
    /\ pc = "hs_select"
    /\ readable' = Ready({"stdout", "stderr"})
    /\ pc' = "hs_branch"
    /\ UNCHANGED <<file, spawned, stdin, results, request, ret, raised,
                   classesRet, exchanges, hsLine, delivered>>
    /\ UNCHANGED procVars
    /\ UNCHANGED <<streamVars, methVars, hist>>

\* lines 171-173
HsStderr ==
    /\ pc = "hs_branch" /\ "stderr" \in readable
    /\ stderr' = Rest(stderr)
    /\ raised' = "ClippyConfigurationError"
    /\ pc' = "failed"
    /\ readable' = {}
    /\ UNCHANGED <<file, spawned, stdin, results, request, ret,
                   classesRet, exchanges, hsLine, delivered>>
    /\ UNCHANGED <<alive, stdout, writes, errSilent>>
    /\ UNCHANGED <<streamVars, methVars, hist>>

\* lines 175-178
HsTimeout ==
    /\ pc = "hs_branch" /\ "stderr" \notin readable /\ "stdout" \notin readable
    /\ raised' = "ClippyConfigurationError"
    /\ pc' = "failed"
    /\ UNCHANGED <<file, spawned, stdin, readable, results, request, ret,
                   classesRet, exchanges, hsLine, delivered>>
    /\ UNCHANGED procVars
    /\ UNCHANGED <<streamVars, methVars, hist>>

\* lines 180-192: the status line must decode to STATUS_READY; then
\* send_cmd(p, CLASSES) is entered
HsReadStatus ==
    /\ pc = "hs_branch" /\ "stderr" \notin readable /\ "stdout" \in readable
    /\ LET status_line == Readline(stdout)
           status == json_loads(status_line)
       IN  /\ stdout' = Rest(stdout)
           /\ hsLine' = status_line
           /\ readable' = {}
           /\ IF IsReady(status)
              THEN /\ request' = [cmd |-> CLASSES, args |-> EmptyDict]
                   /\ exchanges' = exchanges + 1
                   /\ delivered' = <<>>
                   /\ pc' = "sc_write"
                   /\ UNCHANGED raised
              ELSE /\ raised' = "ClippyConfigurationError"
                   /\ pc' = "failed"
                   /\ UNCHANGED <<request, exchanges, delivered>>
    /\ UNCHANGED <<file, spawned, stdin, results, ret, classesRet>>
    /\ UNCHANGED <<alive, stderr, writes, errSilent>>
    /\ UNCHANGED <<streamVars, methVars, hist>>

\* lines 194-199: class_error is dropped; the results are iterated as
\* (class_name, class_data) pairs
ClassesFinish ==
    /\ pc = "returned"
    /\ LET class_dict == Get(ret.payload, RESULTS_KEY, <<>>)
       IN  IF class_dict = <<>>
           THEN /\ classesRet' = 0
                /\ pc' = "discovered"
                /\ UNCHANGED raised
           ELSE \* unpacking a result object yields its keys: two are needed,
                \* and then class_data is a key, which has no pop()
                /\ raised' = IF Cardinality(DOMAIN class_dict[1]) = 2
                             THEN "AttributeError" ELSE "ValueError"
                /\ pc' = "failed"
                /\ UNCHANGED classesRet
    /\ UNCHANGED <<file, spawned, stdin, readable, results, request, ret,
                   exchanges, hsLine, delivered>>
    /\ UNCHANGED procVars
    /\ UNCHANGED <<streamVars, methVars, hist>>

\* an exception of send_cmd leaves classes()
ClassesPropagate ==
    /\ pc = "raised"
    /\ pc' = "failed"
    /\ UNCHANGED <<file, spawned, stdin, readable, results, request, ret,
                   raised, classesRet, exchanges, hsLine, delivered>>
    /\ UNCHANGED procVars
    /\ UNCHANGED <<streamVars, methVars, hist>>

classes ==
    \/ ClassesReject \/ ClassesSpawn \/ HsSelect \/ HsStderr \/ HsTimeout
    \/ HsReadStatus \/ ClassesFinish \/ ClassesPropagate

\* _stream_exec has not been entered
NoProgress == [open |-> FALSE, total |-> "", n |-> 0]
PyNone == [isNone |-> TRUE, text |-> ""]
NoSeRet == [set |-> FALSE, payload |-> EmptyDict, payloadIsNone |-> TRUE,
            stderr |-> PyNone, returncode |-> 0]
NoCallRet == [set |-> FALSE, exc |-> NoException, ok |-> FALSE, stderr |-> "",
              output |-> EmptyDict]
StreamIdle ==
    /\ closed = {}
    /\ exitcode = 0
    /\ mode = "run"
    /\ has_tqdm = TRUE
    /\ streams = <<>>
    /\ d = EmptyDict
    /\ stderr_lines = <<>>
    /\ progress = NoProgress
    /\ seRet = NoSeRet
    /\ callRet = NoCallRet
    /\ raisedArg = PyNone
    /\ printed = <<>>
    /\ outRead = <<>>

\* ------------------------------------------------- instances of a class
\* Python values that travel in arguments and responses: a type tag and the
\* printed items.
Py(type, items) == [t |-> type, v |-> items]
PyNoneValue == Py("none", <<>>)
PySelf == Py("self", <<>>)

\* ClippySerializable.__init__: a fresh instance holds the empty state.
InitialState == Py("dict", <<>>)

\* The selector trees a fresh instance exposes.
InitialSelectors == (<<"a">> :> "")

NoResult == [kind |-> "none", exc |-> NoException, value |-> PyNoneValue]
Running == [kind |-> "running", exc |-> NoException, value |-> PyNoneValue]
Returned(value) == [kind |-> "return", exc |-> NoException, value |-> value]
Raised(exception) == [kind |-> "raise", exc |-> exception, value |-> PyNoneValue]

MethodIdle ==
    /\ constructed = FALSE
    /\ self_state = InitialState
    /\ self_sel = InitialSelectors
    /\ m_argdict = EmptyDict
    /\ m_kwargs = <<>>
    /\ m_outj = EmptyDict
    /\ m_result = NoResult
    /\ m_output = ""
    /\ prev_state = InitialState
    /\ prev_sel = InitialSelectors
    /\ resp_state = InitialState
    /\ sent_expect = InitialState

Init ==
    /\ StreamIdle
    /\ MethodIdle
    /\ file \in Files
    /\ pc = "not_started"
    /\ alive = FALSE
    /\ spawned = 0
    /\ stdin = <<>> /\ stdout = <<>> /\ stderr = <<>>
    /\ readable = {}
    /\ results = <<>>
    /\ request = NoRequest
    /\ ret = NoRet
    /\ raised = NoException
    /\ classesRet = -1
    /\ writes = 0
    /\ exchanges = 0
    /\ hsLine = NoLine
    /\ delivered = <<>>
    /\ errSilent = TRUE
    /\ hist = NoHist

Next ==
    \/ classes
    \/ send_cmd
    \/ BackendWriteOut(DiscLines, MaxDiscWrites)
    \/ BackendWriteErr(MaxDiscWrites)
    \/ BackendExit

Spec == Init /\ [][Next]_vars


\* --------------------------------------- exchanges on a ready process
\* cmd tuples and args mappings a caller of send_cmd passes
Cmds == {CLASSES}
ArgChoices == {EmptyDict, ("cmd" :> "evil") @@ ("x" :> "1")}

\* A caller enters send_cmd(p, cmd, args) on the process, one call at a time.
SendCmdCall ==
    /\ pc \in {"ready", "returned", "raised"}
    /\ exchanges < MaxExchanges
    /\ \E cmd \in Cmds, args \in ArgChoices :
           request' = [cmd |-> cmd, args |-> args]
    /\ exchanges' = exchanges + 1
    /\ delivered' = <<>>
    /\ ret' = NoRet
    /\ raised' = NoException
    /\ pc' = "sc_write"
    /\ UNCHANGED <<file, spawned, stdin, readable, results, classesRet, hsLine>>
    /\ UNCHANGED procVars
    /\ hist' = [prev |-> IF pc = "ready" THEN "none"
                          ELSE IF pc = "raised" THEN "raised"
                          ELSE IF ret.error = "Timeout waiting for response"
                              THEN "timeout"
                          ELSE IF ret.error \in ErrLines THEN "stderr"
                          ELSE IF ret.payload = EmptyDict THEN "failed"
                          ELSE "ok",
                 pending |-> FALSE, errDuring |-> 0]
    /\ UNCHANGED <<streamVars, methVars>>

\* The state classes() leaves behind once STATUS_READY has been read.
InitSend ==
    /\ StreamIdle
    /\ MethodIdle
    /\ file = [isfile |-> TRUE, st_uid |-> Uid, st_gid |-> Gid,
               S_IXUSR |-> TRUE, S_IXGRP |-> TRUE, S_IXOTH |-> TRUE]
    /\ pc = "ready"
    /\ alive = TRUE
    /\ spawned = 1
    /\ stdin = <<>> /\ stdout = <<>> /\ stderr = <<>>
    /\ readable = {}
    /\ results = <<>>
    /\ request = NoRequest
    /\ ret = NoRet
    /\ raised = NoException
    /\ classesRet = -1
    /\ writes = 0
    /\ exchanges = 0
    /\ hsLine = L_READY
    /\ delivered = <<>>
    /\ errSilent = TRUE
    /\ hist = NoHist

NextSend ==
    \/ SendCmdCall
    \/ send_cmd
    \/ BackendWriteOut(SendLines, MaxWrites)
    \/ BackendWriteErr(MaxWrites)
    \/ BackendExit

SpecSend == InitSend /\ [][NextSend]_vars

\* The controller thread keeps running: a step of send_cmd that stays possible
\* is taken.  Nothing obliges the backend to write or to exit.
SpecSendFair == SpecSend /\ WF_vars(send_cmd)


\* ======================================================= _stream_exec
\* The fs backend runs one process per call: the request is written, the
\* input stream closed, and both output pipes are polled until they are at
\* end of stream or the process has exited.
ExitCodes == {0, 1, -9}
submission_dict == ("state" :> "s0")

Str(text) == [isNone |-> FALSE, text |-> text]

\* the number a JSON number of the lines above stands for
Num(v) == IF v = "1" THEN 1 ELSE 0

\* "".join(stderr_lines)
RECURSIVE Join(_)
Join(lines) == IF lines = <<>> THEN "" ELSE Head(lines) \o Join(Tail(lines))

\* line 125: stderr = "".join(stderr_lines) if stderr_lines else None
StderrText(lines) == IF lines # <<>> THEN Str(Join(lines)) ELSE PyNone

\* lines 160, 179, 197: the `validate` argument of each caller
ValidateFlag_ValidateOnly(caller) == caller = "validate"
ValidateFlag(caller) == caller \in {"validate", "help"}

\* a pipe is readable when it holds a line or its write end is closed
StreamReady(s) ==
    IF s = "stdout" THEN stdout # <<>> \/ "stdout" \in closed
    ELSE stderr # <<>> \/ "stderr" \in closed

Pipe(s) == IF s = "stdout" THEN stdout ELSE stderr

\* the process writes, closes a pipe, or exits with a status
StreamWriteOut ==
    /\ alive /\ "stdout" \notin closed /\ writes < MaxStreamWrites
    /\ \E line \in StreamLines : stdout' = Append(stdout, line)
    /\ writes' = writes + 1
    /\ UNCHANGED <<pc, alive, spawned, stdin, stderr, readable, raised, errSilent>>
    /\ UNCHANGED <<monoVars, streamVars, methVars>>

StreamWriteErr ==
    /\ alive /\ "stderr" \notin closed /\ writes < MaxStreamWrites
    /\ \E line \in StreamErrLines : stderr' = Append(stderr, line)
    /\ writes' = writes + 1
    /\ errSilent' = FALSE
    /\ UNCHANGED <<pc, alive, spawned, stdin, stdout, readable, raised>>
    /\ UNCHANGED <<monoVars, streamVars, methVars>>

StreamClose ==
    /\ alive
    /\ \E s \in {"stdout", "stderr"} \ closed : closed' = closed \cup {s}
    /\ UNCHANGED <<pc, alive, spawned, stdin, stdout, stderr, readable, raised,
                   writes, errSilent>>
    /\ UNCHANGED <<monoVars, exitcode, mode, has_tqdm, streams, d, stderr_lines,
                   progress, seRet, callRet, raisedArg, printed, outRead,
                   methVars>>

StreamExit ==
    /\ alive
    /\ alive' = FALSE
    /\ closed' = {"stdout", "stderr"}
    /\ \E code \in ExitCodes : exitcode' = code
    /\ UNCHANGED <<pc, spawned, stdin, stdout, stderr, readable, raised, writes,
                   errSilent>>
    /\ UNCHANGED <<monoVars, mode, has_tqdm, streams, d, stderr_lines, progress,
                   seRet, callRet, raisedArg, printed, outRead,
                   methVars>>

\* lines 64-66: subprocess.Popen
SePopen ==
    /\ pc = "se_popen"
    /\ spawned' = spawned + 1
    /\ alive' = TRUE
    /\ pc' = "se_write"
    /\ UNCHANGED <<stdin, stdout, stderr, readable, raised, writes, errSilent>>
    /\ UNCHANGED <<monoVars, streamVars, methVars>>

\* lines 71-77: the request is written, the input stream closed
SeWrite ==
    /\ pc = "se_write" /\ alive
    /\ stdin' = <<json_dumps(submission_dict)>>
    /\ progress' = NoProgress
    /\ streams' = <<"stdout", "stderr">>
    /\ pc' = "se_select"
    /\ UNCHANGED <<alive, spawned, stdout, stderr, readable, raised, writes,
                   errSilent>>
    /\ UNCHANGED <<monoVars, closed, exitcode, mode, has_tqdm, d, stderr_lines,
                   seRet, callRet, raisedArg, printed, outRead,
                   methVars>>

\* lines 71-72 when the process is gone already: flush() raises, and the
\* `with` block waits for the (dead) process
SeWriteBroken ==
    /\ pc = "se_write" /\ ~alive
    /\ raised' = "BrokenPipeError"
    /\ pc' = "se_done"
    /\ UNCHANGED <<alive, spawned, stdin, stdout, stderr, readable, writes,
                   errSilent>>
    /\ UNCHANGED <<monoVars, streamVars, methVars>>

\* lines 78-79: while streams: select(streams, 0.1); an empty result is the
\* timeout
SeSelect ==
    /\ pc = "se_select" /\ streams # <<>>
    /\ readable' = SelectSeq(streams, StreamReady)
    /\ pc' = "se_for"
    /\ UNCHANGED <<alive, spawned, stdin, stdout, stderr, raised, writes,
                   errSilent>>
    /\ UNCHANGED <<monoVars, streamVars, methVars>>

\* line 78: both pipes were removed, the loop ends
SeLoopEnd ==
    /\ pc = "se_select" /\ streams = <<>>
    /\ pc' = "se_wait"
    /\ UNCHANGED <<alive, spawned, stdin, stdout, stderr, readable, raised,
                   writes, errSilent>>
    /\ UNCHANGED <<monoVars, streamVars, methVars>>

\* lines 82-86: the stream is at its end
SeReadEOF ==
    /\ pc = "se_for" /\ readable # <<>>
    /\ Pipe(Head(readable)) = <<>>
    /\ streams' = SelectSeq(streams, LAMBDA s : s # Head(readable))
    /\ readable' = Tail(readable)
    /\ UNCHANGED <<pc, alive, spawned, stdin, stdout, stderr, raised, writes,
                   errSilent>>
    /\ UNCHANGED <<monoVars, closed, exitcode, mode, has_tqdm, d, stderr_lines,
                   progress, seRet, callRet, raisedArg, printed, outRead,
                   methVars>>

\* lines 90-110: the progress sink after a decoded line
ProgressAfter(sink, line_d) ==
    IF ~has_tqdm THEN sink
    ELSE IF ~sink.open
    THEN IF PROGRESS_START_KEY \in DOMAIN line_d
         THEN [open |-> TRUE,
               total |-> IF line_d[PROGRESS_START_KEY] = "null" THEN "None"
                         ELSE line_d[PROGRESS_START_KEY],
               n |-> 0]
         ELSE sink
    ELSE LET inc == IF PROGRESS_INC_KEY \in DOMAIN line_d
                    THEN [sink EXCEPT !.n = sink.n + Num(line_d[PROGRESS_INC_KEY])]
                    ELSE sink
             set == IF PROGRESS_SET_KEY \in DOMAIN line_d
                    THEN [inc EXCEPT !.n = Num(line_d[PROGRESS_SET_KEY])]
                    ELSE inc
         IN  IF PROGRESS_END_KEY \in DOMAIN line_d THEN NoProgress ELSE set

\* lines 88-113: an output line is decoded and replaces d
SeReadOut ==
    /\ pc = "se_for" /\ readable # <<>>
    /\ Head(readable) = "stdout" /\ stdout # <<>>
    /\ LET line == Head(stdout)
           data == json_loads(line)
       IN  /\ stdout' = Tail(stdout)
           /\ outRead' = Append(outRead, line)
           /\ IF ~data.ok
              THEN \* json.loads raises: the `with` block is left
                   /\ raised' = "JSONDecodeError"
                   /\ pc' = "se_unwind"
                   /\ readable' = <<>>
                   /\ UNCHANGED <<d, progress, printed>>
              ELSE /\ d' = data.val
                   /\ progress' = ProgressAfter(progress, data.val)
                   /\ printed' = IF ~progress'.open /\ OUTPUT_KEY \in DOMAIN data.val
                                 THEN Append(printed, data.val[OUTPUT_KEY])
                                 ELSE printed
                   /\ readable' = Tail(readable)
                   /\ UNCHANGED <<pc, raised>>
    /\ UNCHANGED <<alive, spawned, stdin, stderr, writes, errSilent>>
    /\ UNCHANGED <<monoVars, closed, exitcode, mode, has_tqdm, streams,
                   stderr_lines, seRet, callRet, raisedArg,
                   methVars>>

\* lines 114-116: an error line is accumulated and echoed
SeReadErr ==
    /\ pc = "se_for" /\ readable # <<>>
    /\ Head(readable) = "stderr" /\ stderr # <<>>
    /\ stderr_lines' = Append(stderr_lines, Head(stderr))
    /\ printed' = Append(printed, Head(stderr))
    /\ stderr' = Tail(stderr)
    /\ readable' = Tail(readable)
    /\ UNCHANGED <<pc, alive, spawned, stdin, stdout, raised, writes, errSilent>>
    /\ UNCHANGED <<monoVars, closed, exitcode, mode, has_tqdm, streams, d,
                   progress, seRet, callRet, raisedArg, outRead,
                   methVars>>

\* lines 118-120: after the readable streams, poll the process
SePoll ==
    /\ pc = "se_for" /\ readable = <<>>
    /\ pc' = IF ~alive THEN "se_wait" ELSE "se_select"
    /\ UNCHANGED <<alive, spawned, stdin, stdout, stderr, readable, raised,
                   writes, errSilent>>
    /\ UNCHANGED <<monoVars, streamVars, methVars>>

\* lines 125, 131-133: a non-zero return code raises
Outcome_PositiveOnly(returncode, validate) ==
    IF returncode > 0
    THEN IF validate THEN "ClippyValidationError" ELSE "ClippyBackendError"
    ELSE NoException

Outcome(returncode, validate) ==
    IF returncode # 0
    THEN IF validate THEN "ClippyValidationError" ELSE "ClippyBackendError"
    ELSE NoException

\* `not d`, `output or {}`, `stderr or ""`: what Python takes for false
Falsy_Never(obj) == FALSE
Falsy(obj) == obj = EmptyDict

\* lines 160-164: _validate returns (retcode == 0, stderr or "")
_validate(se) ==
    [set |-> TRUE, exc |-> NoException, ok |-> (se.returncode = 0),
     stderr |-> IF se.stderr.isNone THEN "" ELSE se.stderr.text,
     output |-> EmptyDict]

\* lines 179-182: _run returns output or {}; the warning of line 181 names
\* the undefined `retcde`
_run(se) ==
    [set |-> TRUE,
     exc |-> IF se.returncode # 0 THEN "NameError" ELSE NoException,
     ok |-> FALSE, stderr |-> "",
     output |-> IF se.payloadIsNone \/ Falsy(se.payload) THEN EmptyDict
                ELSE se.payload]

\* lines 197-198: _help returns output or {}
_help(se) ==
    [set |-> TRUE, exc |-> NoException, ok |-> FALSE, stderr |-> "",
     output |-> IF se.payloadIsNone \/ Falsy(se.payload) THEN EmptyDict
                ELSE se.payload]

\* end of the `with` block (Popen.__exit__ waits for the process), then
\* lines 125-143, then the caller's own return
SeFinish ==
    /\ pc = "se_wait" /\ ~alive
    /\ LET text == StderrText(stderr_lines)
           exception == Outcome(exitcode, ValidateFlag(mode))
       IN  /\ progress' = [progress EXCEPT !.open = FALSE]
           /\ IF exception # NoException
              THEN /\ raised' = exception
                   /\ raisedArg' = text
                   /\ UNCHANGED <<seRet, callRet>>
              ELSE /\ seRet' = [set |-> TRUE, payload |-> d,
                                payloadIsNone |-> Falsy(d),
                                stderr |-> text, returncode |-> exitcode]
                   /\ callRet' = CASE mode = "validate" -> _validate(seRet')
                                   [] mode = "run" -> _run(seRet')
                                   [] mode = "help" -> _help(seRet')
                   /\ raised' = callRet'.exc
                   /\ UNCHANGED raisedArg
    /\ pc' = "se_done"
    /\ UNCHANGED <<alive, spawned, stdin, stdout, stderr, readable, writes,
                   errSilent>>
    /\ UNCHANGED <<monoVars, closed, exitcode, mode, has_tqdm, streams, d,
                   stderr_lines, printed, outRead,
                   methVars>>

\* the JSONDecodeError leaves the `with` block once the process has exited
SeUnwind ==
    /\ pc = "se_unwind" /\ ~alive
    /\ pc' = "se_done"
    /\ UNCHANGED <<alive, spawned, stdin, stdout, stderr, readable, raised,
                   writes, errSilent>>
    /\ UNCHANGED <<monoVars, streamVars, methVars>>

_stream_exec ==
    \/ SePopen \/ SeWrite \/ SeWriteBroken \/ SeSelect \/ SeLoopEnd
    \/ SeReadEOF \/ SeReadOut \/ SeReadErr \/ SePoll \/ SeFinish \/ SeUnwind

InitStream ==
    /\ MethodIdle
    /\ file = [isfile |-> TRUE, st_uid |-> Uid, st_gid |-> Gid,
               S_IXUSR |-> TRUE, S_IXGRP |-> TRUE, S_IXOTH |-> TRUE]
    /\ pc = "se_popen"
    /\ alive = FALSE
    /\ spawned = 0
    /\ stdin = <<>> /\ stdout = <<>> /\ stderr = <<>>
    /\ readable = <<>>
    /\ results = <<>>
    /\ request = NoRequest
    /\ ret = NoRet
    /\ raised = NoException
    /\ classesRet = -1
    /\ writes = 0
    /\ exchanges = 0
    /\ hsLine = NoLine
    /\ delivered = <<>>
    /\ errSilent = TRUE
    /\ hist = NoHist
    /\ closed = {}
    /\ exitcode = 0
    /\ mode \in {"run", "validate", "help"}
    /\ has_tqdm \in BOOLEAN
    /\ streams = <<>>
    /\ d = EmptyDict
    /\ stderr_lines = <<>>
    /\ progress = NoProgress
    /\ seRet = NoSeRet
    /\ callRet = NoCallRet
    /\ raisedArg = PyNone
    /\ printed = <<>>
    /\ outRead = <<>>

NextStream ==
    \/ _stream_exec
    \/ StreamWriteOut
    \/ StreamWriteErr
    \/ StreamClose
    \/ StreamExit

SpecStream == InitStream /\ [][NextStream]_vars

\* ================================================================ claims
\* --------------------------------------------------- bound methods (m)
\* Reserved keys (clippy/constants.py).
STATE_KEY == "state"
SELECTOR_KEY == "selectors"
REFERENCE_KEY == "references"
RETURN_KEY == "return"
SELF_KEY == "self"

\* The class built by _create_class: one selector installed from the class
\* descriptor, the bound method itself, and the convenience fields.
MethodName == "insert"
ClassSelectors == {"a"}
hasattr(attr) ==
    attr \in ClassSelectors \cup {MethodName, "logger", "_name", "_cfg", "_p", STATE_KEY}

\* A flattened selector mapping is a list of entries in document order, the
\* dotted key of each already split at its dots.

\* flat_dict_to_nested: the top-level names in order of first appearance, and
\* under each name the entries of its subtree.
RECURSIVE TopNames(_)
TopNames(flat) ==
    IF flat = <<>> THEN <<>>
    ELSE LET front == TopNames(SubSeq(flat, 1, Len(flat) - 1))
             top == Head(flat[Len(flat)].path)
         IN  IF \E i \in 1..Len(front) : front[i] = top THEN front
             ELSE Append(front, top)

flat_dict_to_nested(flat) ==
    [i \in 1..Len(TopNames(flat)) |->
        [topsel |-> TopNames(flat)[i],
         subsels |-> SelectSeq(flat, LAMBDA e : Head(e.path) = TopNames(flat)[i])]]

\* Selector._import_from_dict: every entry of the subtree becomes a node
\* holding the entry's value; intermediate nodes are created without a value.
RECURSIVE _import_from_dict(_, _)
_import_from_dict(tree, subsels) ==
    IF subsels = <<>> THEN tree
    ELSE LET e == Head(subsels)
             made == [p \in {SubSeq(e.path, 1, n) : n \in 1..(Len(e.path) - 1)} |->
                         IF p \in DOMAIN tree THEN tree[p] ELSE ""]
         IN  _import_from_dict((e.path :> e.value) @@ made @@ tree, Tail(subsels))

\* Lines 270-275: a declared argument takes the positional value at its
\* position when that position was passed.
Positionals(arguments, args) ==
    [k \in {n \in DOMAIN arguments :
                /\ arguments[n].has_position
                /\ 0 <= arguments[n].position
                /\ arguments[n].position < Len(args)}
        |-> args[arguments[k].position + 1]]

\* Keyword arguments in call order.
RECURSIVE KwDict(_)
KwDict(kwargs) ==
    IF kwargs = <<>> THEN EmptyDict
    ELSE (kwargs[Len(kwargs)].k :> kwargs[Len(kwargs)].v)
             @@ KwDict(SubSeq(kwargs, 1, Len(kwargs) - 1))

\* Lines 259-278: the state first, then positionals, then keywords; a later
\* assignment to the same key wins.
Argdict(state, arguments, args, kwargs) ==
    Update(Update((STATE_KEY :> state), Positionals(arguments, args)), KwDict(kwargs))

\* Lines 286-294: in-place update of the keyword arguments the response names.
RECURSIVE ByReference(_, _, _)
ByReference(kwargs, i, outj) ==
    IF i > Len(kwargs) THEN [exc |-> NoException, kwargs |-> kwargs]
    ELSE LET kw == kwargs[i].k
             kwval == kwargs[i].v
             cleared == [kwargs EXCEPT ![i].v.v = <<>>]
         IN  IF kw \notin Get(outj, REFERENCE_KEY, {})
                 THEN ByReference(kwargs, i + 1, outj)
             ELSE IF kwval.t \notin {"list", "dict", "set"}
                 THEN [exc |-> "AttributeError", kwargs |-> kwargs]
             ELSE IF kwval.t \notin {"list", "dict"}
                 THEN [exc |-> "ClippyTypeError", kwargs |-> cleared]
             ELSE IF kw \notin DOMAIN outj
                 THEN [exc |-> "KeyError", kwargs |-> cleared]
             ELSE ByReference([kwargs EXCEPT ![i].v.v = outj[kw].v], i + 1, outj)

\* Lines 304-311: the top-level names of the response, in order.
RECURSIVE UpdateSelectors(_, _, _)
UpdateSelectors(tree, nested, i) ==
    IF i > Len(nested) THEN [exc |-> NoException, tree |-> tree]
    ELSE IF ~hasattr(nested[i].topsel)
        THEN [exc |-> "ClippyInvalidSelectorError", tree |-> tree]
    ELSE IF nested[i].topsel \notin ClassSelectors
        THEN [exc |-> "AttributeError", tree |-> tree]
    ELSE UpdateSelectors(_import_from_dict(tree, nested[i].subsels), nested, i + 1)

\* Lines 314-316.
ReturnValue_AlwaysReturnKey(outj) ==
    Get(outj, RETURN_KEY, PyNoneValue)

ReturnValue(outj) ==
    IF Get(outj, SELF_KEY, FALSE) THEN PySelf
    ELSE Get(outj, RETURN_KEY, PyNoneValue)

\* m up to the call of _run (lines 255-281): the request is built from the
\* instance's state and the caller's arguments and handed to the backend.
m_request(name, arguments, args, kwargs) ==
    LET state == IF name = "__init__" THEN InitialState ELSE self_state
    IN  /\ m_result = NoResult \/ m_result.kind # "running"
        /\ self_state' = state
        /\ prev_state' = state
        /\ prev_sel' = self_sel
        /\ resp_state' = IF name = "__init__" THEN InitialState ELSE resp_state
        /\ sent_expect' = resp_state'
        /\ m_argdict' = Argdict(state, arguments, args, kwargs)
        /\ m_kwargs' = kwargs
        /\ m_outj' = EmptyDict
        /\ m_output' = ""
        /\ m_result' = Running
        /\ UNCHANGED self_sel

\* m from the return of _run to its own end (lines 281-316).  run is what
\* _run did with argdict: an exception, or the response.
m_response(run) ==
    LET outj == run.outj
        refs == ByReference(m_kwargs, 1, outj)
        sels == IF SELECTOR_KEY \in DOMAIN outj
                    THEN UpdateSelectors(self_sel, flat_dict_to_nested(outj[SELECTOR_KEY]), 1)
                    ELSE [exc |-> NoException, tree |-> self_sel]
    IN  /\ m_result.kind = "running"
        /\ UNCHANGED <<prev_state, prev_sel, sent_expect, m_argdict>>
        /\ IF run.exc # NoException
               THEN /\ m_result' = Raised(run.exc)
                    /\ UNCHANGED <<m_outj, m_kwargs, m_output, self_state,
                                   resp_state, self_sel>>
           ELSE IF refs.exc # NoException
               THEN /\ m_result' = Raised(refs.exc)
                    /\ m_outj' = outj
                    /\ m_kwargs' = refs.kwargs
                    /\ resp_state' = Get(outj, STATE_KEY, resp_state)
                    /\ UNCHANGED <<m_output, self_state, self_sel>>
           ELSE /\ m_outj' = outj
                /\ m_kwargs' = refs.kwargs
                /\ m_output' = Get(outj, OUTPUT_KEY, "")
                /\ self_state' = Get(outj, STATE_KEY, self_state)
                /\ resp_state' = Get(outj, STATE_KEY, resp_state)
                /\ self_sel' = sels.tree
                /\ m_result' = IF sels.exc # NoException THEN Raised(sels.exc)
                               ELSE Returned(ReturnValue(outj))

\* ---- what callers pass and what backends answer
ArgumentChoices ==
    { EmptyDict,
      ("x" :> [has_position |-> TRUE, position |-> 0]),
      (STATE_KEY :> [has_position |-> TRUE, position |-> 0])
          @@ ("y" :> [has_position |-> FALSE, position |-> 0]) }
ArgsChoices == { <<>>, <<Py("int", <<"7">>)>> }
KwargsChoices ==
    { <<>>,
      <<[k |-> "x", v |-> Py("list", <<"1", "2">>)]>>,
      <<[k |-> "x", v |-> Py("int", <<"7">>)]>>,
      <<[k |-> STATE_KEY, v |-> Py("str", <<"forged">>)]>> }
CallChoices ==
    { [arguments |-> a, args |-> p, kwargs |-> <<>>] :
          a \in ArgumentChoices, p \in ArgsChoices }
        \cup { [arguments |-> EmptyDict, args |-> <<>>, kwargs |-> k] :
               k \in KwargsChoices }
        \cup { [arguments |-> ("x" :> [has_position |-> TRUE, position |-> 0]),
                 args |-> <<Py("int", <<"7">>)>>,
                 kwargs |-> <<[k |-> "x", v |-> Py("list", <<"1", "2">>)]>>] }

\* Responses: every combination of a state, a selector mapping, a return
\* value with or without the self flag, and a by-reference update of x.
Responses ==
    LET states == { EmptyDict,
                    (STATE_KEY :> Py("str", <<"s1">>)),
                    (STATE_KEY :> Py("str", <<"s2">>)) }
        selectors ==
            { EmptyDict,
              (SELECTOR_KEY :> <<[path |-> <<"a", "b">>, value |-> "5"]>>),
              (SELECTOR_KEY :> <<[path |-> <<"a", "b">>, value |-> "6"],
                                 [path |-> <<"zz", "c">>, value |-> "1"]>>),
              (SELECTOR_KEY :> <<[path |-> <<MethodName, "c">>, value |-> "1"]>>) }
        returns ==
            { EmptyDict,
              (RETURN_KEY :> Py("int", <<"42">>)),
              (SELF_KEY :> TRUE) @@ (RETURN_KEY :> Py("int", <<"42">>)),
              (SELF_KEY :> FALSE) @@ (RETURN_KEY :> Py("int", <<"42">>)) }
        references ==
            { EmptyDict,
              (REFERENCE_KEY :> {"x"}) @@ ("x" :> Py("list", <<"3", "4">>)) }
    IN  { s @@ t @@ r @@ b : s \in states, t \in selectors,
                             r \in returns, b \in references }
            \cup { (OUTPUT_KEY :> "hello") @@ (STATE_KEY :> Py("str", <<"s1">>)),
                   (REFERENCE_KEY :> {"x"}) }

\* _run(executable, argdict, logger): _stream_exec with validate=False, then
\* `output or {}`.  A backend that rejects the request exits non-zero.
RunOutcomes ==
    { [exc |-> Outcome(code, ValidateFlag("run")), outj |-> EmptyDict] :
          code \in ExitCodes \ {0} }
        \cup { [exc |-> NoException, outj |-> o] : o \in Responses }

\* Instantiating a class without a backend __init__ method.
Construct ==
    /\ ~constructed
    /\ constructed' = TRUE
    /\ self_state' = InitialState
    /\ resp_state' = InitialState
    /\ UNCHANGED <<self_sel, m_argdict, m_kwargs, m_outj, m_result, m_output,
                   prev_state, prev_sel, sent_expect>>
    /\ UNCHANGED <<pc, spawned, stdin, readable, raised>>
    /\ UNCHANGED <<monoVars, procVars, streamVars>>

\* Instantiating a class whose __init__ is a backend method.
ConstructInit ==
    /\ ~constructed
    /\ constructed' = TRUE
    /\ \E call \in CallChoices :
           m_request("__init__", call.arguments, call.args, call.kwargs)
    /\ UNCHANGED <<pc, spawned, stdin, readable, raised>>
    /\ UNCHANGED <<monoVars, procVars, streamVars>>

\* Calling the bound method on the instance.
MethodCall ==
    /\ constructed
    /\ UNCHANGED constructed
    /\ \E call \in CallChoices :
           m_request(MethodName, call.arguments, call.args, call.kwargs)
    /\ UNCHANGED <<pc, spawned, stdin, readable, raised>>
    /\ UNCHANGED <<monoVars, procVars, streamVars>>

\* _run comes back and m runs to its end.
MethodReturn ==
    /\ constructed
    /\ UNCHANGED constructed
    /\ \E run \in RunOutcomes : m_response(run)
    /\ UNCHANGED <<pc, spawned, stdin, readable, raised>>
    /\ UNCHANGED <<monoVars, procVars, streamVars>>

InitMethod ==
    /\ StreamIdle
    /\ MethodIdle
    /\ file = [isfile |-> TRUE, st_uid |-> Uid, st_gid |-> Gid,
               S_IXUSR |-> TRUE, S_IXGRP |-> TRUE, S_IXOTH |-> TRUE]
    /\ pc = "ready"
    /\ alive = TRUE
    /\ spawned = 1
    /\ stdin = <<>> /\ stdout = <<>> /\ stderr = <<>>
    /\ readable = {}
    /\ results = <<>>
    /\ request = NoRequest
    /\ ret = NoRet
    /\ raised = NoException
    /\ classesRet = -1
    /\ writes = 0
    /\ exchanges = 0
    /\ hsLine = L_READY
    /\ delivered = <<>>
    /\ errSilent = TRUE
    /\ hist = NoHist

NextMethod ==
    \/ Construct
    \/ ConstructInit
    \/ MethodCall
    \/ MethodReturn

SpecMethod == InitMethod /\ [][NextMethod]_vars

\* ---------------------------------------------------------------- C9
\* some execute bit applies to the current user
ExecuteBitApplies(f) ==
    \/ f.st_uid = Uid /\ f.S_IXUSR
    \/ f.st_gid = Gid /\ f.S_IXGRP
    \/ f.S_IXOTH

\* C9: discovery never creates a process for a path that is not a regular
\* file or to which no execute bit applies for the current user; classes()
\* then ends with ClippyConfigurationError and no process.
C9_NoSpawnUnlessExecutable ==
    /\ spawned > 0 => file.isfile /\ ExecuteBitApplies(file)
    /\ (pc # "not_started" /\ ~(file.isfile /\ ExecuteBitApplies(file)))
         => /\ pc = "failed"
            /\ raised = "ClippyConfigurationError"
            /\ spawned = 0

\* a regular file whose only execute bits belong to another owner and group
C9_Witness ==
    /\ pc = "failed" /\ raised = "ClippyConfigurationError" /\ spawned = 0
    /\ file.isfile /\ file.S_IXUSR /\ file.S_IXGRP /\ ~file.S_IXOTH
    /\ file.st_uid # Uid /\ file.st_gid # Gid

\* ---------------------------------------------------------------- C10
HandshakeOver == spawned > 0 /\ pc \notin {"hs_select", "hs_branch"}

\* C10: the class-catalog request is written only after STATUS_READY was
\* read as the first output line; a handshake that ends otherwise (timeout,
\* error-stream line, undecodable line, another document) ends classes()
\* with ClippyConfigurationError, and nothing is ever written to the
\* process.
C10_RequestOnlyAfterReady ==
    /\ stdin # <<>> => hsLine = L_READY
    /\ (HandshakeOver /\ hsLine # L_READY)
         => /\ pc = "failed"
            /\ raised = "ClippyConfigurationError"
            /\ stdin = <<>>

\* READY was read and the catalog request is on the input stream
C10_Witness ==
    /\ hsLine = L_READY
    /\ stdin = <<json_dumps(("cmd" :> "_getclasses"))>>

\* ---------------------------------------------------------------- C1
ResultLines == {L_RES_A, L_RES_B}
UpdateLines == {L_UPDATE_MSG}

\* START, then result objects and UPDATE lines, then END
StartResultsEnd(lines) ==
    /\ Len(lines) >= 2
    /\ lines[1] = L_START
    /\ lines[Len(lines)] = L_END
    /\ \A i \in 2..(Len(lines) - 1) : lines[i] \in ResultLines \cup UpdateLines

IsResultLine(line) == line \in ResultLines

\* the result objects among the lines, in arrival order
RECURSIVE ResultObjects(_)
ResultObjects(lines) ==
    IF lines = <<>> THEN <<>>
    ELSE IF IsResultLine(Head(lines))
    THEN <<json_loads(Head(lines)).val>> \o ResultObjects(Tail(lines))
    ELSE ResultObjects(Tail(lines))

\* C1: a send_cmd call that read START, result objects interleaved with
\* UPDATE lines, and END, with nothing on the error stream, returns the
\* payload whose result list is exactly the result objects in arrival order.
C1_ResultsInArrivalOrder ==
    (pc = "returned" /\ errSilent /\ StartResultsEnd(delivered))
        => /\ ret.error = ""
           /\ ret.payload = (RESULTS_KEY :> ResultObjects(delivered))

\* two result objects between START and END
C1_Witness ==
    /\ pc = "returned" /\ errSilent
    /\ delivered = <<L_START, L_RES_B, L_RES_A, L_END>>
    /\ ret.payload = (RESULTS_KEY :> <<("name" :> "B"), ("name" :> "A")>>)

\* ---------------------------------------------------------------- C5
RequestWritten == pc \in {"sc_select", "sc_branch", "sc_loop", "sc_errcheck", "returned"}

\* C5 (as claimed): the payload written for a send_cmd call has the `cmd`
\* key equal to the command's canonical name and carries every extra
\* argument; the extra arguments never override `cmd`.
C5_CmdKeyNeverOverridden ==
    RequestWritten =>
        LET sent == stdin[Len(stdin)].doc
        IN  /\ "cmd" \in DOMAIN sent
            /\ sent["cmd"] = request.cmd[1]
            /\ \A k \in DOMAIN request.args \ {"cmd"} :
                   k \in DOMAIN sent /\ sent[k] = request.args[k]


\* ---------------------------------------------------------------- C2
AllDecodable(lines) == \A i \in 1..Len(lines) : json_loads(lines[i]).ok

ErrorOfMode == IF mode = "run" THEN "ClippyBackendError" ELSE "ClippyValidationError"

CallSent == STATE_KEY \in DOMAIN m_argdict

\* C3: over any sequence of bound method calls on one instance, the state in
\* each call's request is the state of the most recent earlier response that
\* carried one, or the initial state when no response carried one yet.
C3_RequestCarriesLatestResponseState ==
    CallSent => m_argdict[STATE_KEY] = sent_expect

\* ---------------------------------------------------------------- C4
\* C4: in every bound method call, whatever positional and keyword arguments
\* are passed and whatever names the descriptor declares, the state field of
\* the request is the caller's current state.
C4_RequestCarriesCurrentState ==
    CallSent => m_argdict[STATE_KEY] = prev_state

\* ---------------------------------------------------------------- C6
CallEnded == m_result.kind \in {"return", "raise"}

\* C6: a call that returns gives back the calling instance when the response
\* has the self flag set to true; in every other case it gives back the
\* response's return value, or none when the response has no return key.  A
\* response without selectors and without by-reference names always returns.
C6_ReturnsSelfOrReturnValue ==
    /\ m_result.kind = "return" =>
           m_result.value =
               IF SELF_KEY \in DOMAIN m_outj /\ m_outj[SELF_KEY] = TRUE
                   THEN PySelf
               ELSE IF RETURN_KEY \in DOMAIN m_outj THEN m_outj[RETURN_KEY]
               ELSE PyNoneValue
    /\ ( /\ CallEnded
         /\ m_result.exc # "ClippyBackendError"
         /\ SELECTOR_KEY \notin DOMAIN m_outj
         /\ REFERENCE_KEY \notin DOMAIN m_outj ) => m_result.kind = "return"

C6_Witness ==
    /\ m_result = Returned(PySelf)
    /\ SELF_KEY \in DOMAIN m_outj /\ m_outj[SELF_KEY] = TRUE
    /\ RETURN_KEY \in DOMAIN m_outj /\ m_outj[RETURN_KEY] = Py("int", <<"42">>)

\* ---------------------------------------------------------------- C7
ReferencesApplied == ByReference(m_kwargs, 1, m_outj).exc = NoException

SelectorsProcessed ==
    /\ CallEnded
    /\ SELECTOR_KEY \in DOMAIN m_outj
    /\ ReferencesApplied

NamesOf(flat) == {Head(flat[i].path) : i \in 1..Len(flat)}

\* The value an entry list leaves at a path: that of its last entry there.
Merged(flat, tree) ==
    \A i \in 1..Len(flat) :
        (\A j \in (i + 1)..Len(flat) : flat[j].path # flat[i].path)
            => /\ flat[i].path \in DOMAIN tree
               /\ tree[flat[i].path] = flat[i].value

\* C7: a call whose response carries selectors merges, for every top-level
\* name, the subtree into the caller's selector of that name; when the caller
\* exposes no top-level selector of some name the call raises
\* ClippyInvalidSelectorError.
C7_SelectorsMergedOrRejected ==
    SelectorsProcessed =>
        IF NamesOf(m_outj[SELECTOR_KEY]) \subseteq ClassSelectors
            THEN /\ m_result.kind = "return"
                 /\ Merged(m_outj[SELECTOR_KEY], self_sel)
            ELSE m_result = Raised("ClippyInvalidSelectorError")

\* ---------------------------------------------------------------- C8
\* C8: the state and selector updates of one call are applied atomically: when
\* the call ends by raising, the instance's state and selector trees are what
\* they were before the call.
C8_RaiseLeavesInstanceUnchanged ==
    m_result.kind = "raise" => (self_state = prev_state /\ self_sel = prev_sel)

\* ---------------------------------------------------------------- C11
\* C11: discovery returns normally only if its class-catalog exchange
\* succeeded; a failed exchange is raised to the caller of discovery, never
\* swallowed or turned into an empty class catalog.
C11_DiscoveredOnlyAfterSuccess ==
    pc = "discovered" => ret.error = ""

\* ---------------------------------------------------------------- C12
\* C12: every exchange terminates: when the backend stops producing output at
\* any point of an exchange, the exchange ends after the bounded wait with a
\* failure and without a payload; it never blocks forever.
C12_ExchangeTerminates ==
    (pc = "sc_write") ~> (pc \in {"returned", "raised"})

\* ---------------------------------------------------------------- C13
\* C13: after an exchange on a process ended with a timeout or an error-stream
\* failure, no later send_cmd on that process returns a payload built from
\* lines the backend emitted before the later request was written.
C13_NoPayloadFromStaleLines ==
    ( /\ pc = "returned"
      /\ hist.prev \in {"timeout", "stderr"}
      /\ ret.error = "" /\ ret.payload # EmptyDict ) => ~hist.pending

\* ---------------------------------------------------------------- C19
\* C19: every line the backend writes to its error stream while a send_cmd
\* exchange is in progress is read by that same exchange; none is left unread
\* for a later exchange on the process.
C19_ErrorLinesReadBySameExchange ==
    pc = "returned" => hist.errDuring = 0

\* ---------------------------------------------------------------- C14
\* The exchange read START and every line it read after that was a decodable
\* line other than END.
PartialStream ==
    /\ delivered # <<>> /\ delivered[1] = L_START
    /\ \A i \in 2..Len(delivered) :
           delivered[i] # L_END /\ json_loads(delivered[i]).ok

\* C14: when the output stream ends after START and before END, send_cmd
\* yields the end-of-stream error and an empty payload, never the partial
\* list of results read so far.
C14_PartialStreamIsFailure ==
    (pc = "returned" /\ PartialStream) =>
        ret = Ret(EmptyDict, "Unexpected EOF while reading response")

C14_Witness ==
    /\ pc = "returned" /\ ~alive /\ stdout = <<>>
    /\ delivered = <<L_START, L_RES_A, L_RES_B>>
    /\ ret = Ret(EmptyDict, "Unexpected EOF while reading response")

\* ---------------------------------------------------------------- C15
\* C15: after a call, every keyword argument named in the response's
\* by-reference set holds the response's value for that name, mutated in place
\* (a list or a mapping); an argument of any other type named there makes the
\* call raise ClippyTypeError; arguments not named there are unchanged.
C15_ByReferenceUpdates ==
    CallEnded =>
        \A i \in 1..Len(m_kwargs) :
            LET kw == m_kwargs[i].k
                before == m_argdict[kw]
                after == m_kwargs[i].v
            IN  IF kw \in Get(m_outj, REFERENCE_KEY, {})
                    THEN IF before.t \in {"list", "dict"}
                             THEN /\ kw \in DOMAIN m_outj
                                  /\ after = Py(before.t, m_outj[kw].v)
                             ELSE m_result = Raised("ClippyTypeError")
                    ELSE after = before

\* ---------------------------------------------------------------- C16
\* The call ended with the exception _run raised: the backend rejected it.
Rejected == m_result.kind = "raise" /\ m_outj = EmptyDict

\* C16: a bound method call that the backend rejects as invalid raises
\* ClippyValidationError to the caller.
C16_RejectedCallRaisesValidationError ==
    Rejected => m_result.exc = "ClippyValidationError"

\* ---------------------------------------------------------------- C17
\* C17: within one exchange a control-shaped line other than UPDATE and END
\* between START and END (a second START, a READY) is a protocol failure and
\* is never appended to the results.
C17_NoControlLineAmongResults ==
    (pc = "returned" /\ RESULTS_KEY \in DOMAIN ret.payload) =>
        \A i \in 1..Len(ret.payload[RESULTS_KEY]) :
            STATUS_KEY \notin DOMAIN ret.payload[RESULTS_KEY][i]

\* ---------------------------------------------------------------- C18
\* _stream_exec is over by a return or by the error of a non-zero exit code.
StreamExchangeOver ==
    /\ pc = "se_done"
    /\ raised \in {NoException, "ClippyBackendError", "ClippyValidationError"}

\* C18: in _stream_exec every line the backend wrote to its output and error
\* streams before exiting has been read when the exchange returns or raises.
C18_AllLinesReadBeforeEnd ==
    StreamExchangeOver => (stdout = <<>> /\ stderr = <<>>)

\* ---------------------------------------------------------------- C20
\* What reading one decodable output line does to the progress sink and to
\* the printed text, with progress support available.
ProgressStep ==
    (has_tqdm /\ outRead' # outRead /\ json_loads(outRead'[Len(outRead')]).ok) =>
        LET line_d == json_loads(outRead'[Len(outRead')]).val
        IN  /\ IF ~progress.open
                   THEN IF PROGRESS_START_KEY \in DOMAIN line_d
                            THEN /\ progress'.open /\ progress'.n = 0
                                 /\ line_d[PROGRESS_START_KEY] = "null"
                                        => progress'.total = "None"
                            ELSE ~progress'.open
                   ELSE progress'.open = (PROGRESS_END_KEY \notin DOMAIN line_d)
            /\ printed' = IF OUTPUT_KEY \in DOMAIN line_d /\ ~progress'.open
                              THEN Append(printed, line_d[OUTPUT_KEY])
                              ELSE printed

\* C20: a start field creates the sink when none exists (unbounded for null),
\* increment and set apply only to an existing sink, an end field releases it,
\* an output field is printed exactly when no sink exists after the line, and
\* no sink is open once the exchange has returned or raised.
C20_ProgressLifecycle ==
    /\ [][ProgressStep]_vars
    /\ [](pc = "se_done" => ~progress.open)


\* ---------------------------------------------------------------- C21
\* C21: every return of send_cmd is either a payload holding a results list
\* with the empty error string, or the empty payload with a non-empty error
\* text.
C21_ResultsXorErrorText ==
    pc = "returned" =>
        \/ RESULTS_KEY \in DOMAIN ret.payload /\ ret.error = ""
        \/ ret.payload = EmptyDict /\ ret.error # ""


\* ---------------------------------------------------------------- C22
\* the dictionary decoded from the last output line read so far, {} before
\* the first one
LastDecoded ==
    IF outRead = <<>> THEN EmptyDict
    ELSE json_loads(outRead[Len(outRead)]).val

====
